---- MODULE Spec2Model ----
(***************************************************************************)
(* nmea-web: NMEA 0183 GGA/RMC codec.                                      *)
(*                                                                         *)
(* A JavaScript string is a sequence of one-character strings, so that     *)
(* slice, split, padStart, charCodeAt, parseInt and parseFloat are         *)
(* computed on the characters as the runtime computes them.  A JavaScript  *)
(* number is an exact fraction [n, d] (d = 0 is NaN): the arithmetic of    *)
(* the codec is carried out exactly instead of in IEEE doubles.  A Date is *)
(* [day, ms]: days since 1970-01-01 and milliseconds within the UTC day.   *)
(***************************************************************************)
EXTENDS Integers, Sequences, FiniteSets, TLC

VARIABLES
    clock,          \* the wall clock, read by `new Date()`
    pos,            \* TrackPosition given to the last encoder call
    options,        \* EncodeOptions given to the last encoder call
    sentence,       \* the wire string: produced by an encoder or received
    origin,         \* how `sentence` came about
    channel,        \* what the channel did to `sentence` since
    enableChecksum, \* flag given to the last decoder call
    packet,         \* outcome of the last decoder call (a record or an error)
    op              \* the operation that produced this state

vars == <<clock, pos, options, sentence, origin, channel, enableChecksum, packet, op>>

----------------------------------------------------------------------------
(* Characters *)

\* The printable ASCII characters in code order, from code 32 (the grave
\* accent, code 96, is never used and has a placeholder).
Printable ==
    << " ", "!", "\"", "#", "$", "%", "&", "'", "(", ")", "*", "+", ",", "-",
       ".", "/", "0", "1", "2", "3", "4", "5", "6", "7", "8", "9", ":", ";",
       "<", "=", ">", "?", "@", "A", "B", "C", "D", "E", "F", "G", "H", "I",
       "J", "K", "L", "M", "N", "O", "P", "Q", "R", "S", "T", "U", "V", "W",
       "X", "Y", "Z", "[", "\\", "]", "^", "_", "<grave>", "a", "b", "c", "d", "e",
       "f", "g", "h", "i", "j", "k", "l", "m", "n", "o", "p", "q", "r", "s",
       "t", "u", "v", "w", "x", "y", "z", "{", "|", "}", "~" >>

CR == "\r"
LF == "\n"

Chars == {Printable[i] : i \in DOMAIN Printable} \cup {CR, LF}

CharCodes ==
    [c \in Chars |->
        IF c = CR THEN 13
        ELSE IF c = LF THEN 10
        ELSE 31 + CHOOSE i \in DOMAIN Printable : Printable[i] = c]

\* String.prototype.charCodeAt, on a one-character string.
charCodeAt(c) == CharCodes[c]

DecDigits == <<"0", "1", "2", "3", "4", "5", "6", "7", "8", "9">>
HexDigits == DecDigits \o <<"A", "B", "C", "D", "E", "F">>

IsDigit(c) == c \in {DecDigits[i] : i \in DOMAIN DecDigits}
IsUpper(c) == c \in Chars /\ charCodeAt(c) >= 65 /\ charCodeAt(c) <= 90
IsLower(c) == c \in Chars /\ charCodeAt(c) >= 97 /\ charCodeAt(c) <= 122
\* \w of a regular expression
IsWordChar(c) == IsDigit(c) \/ IsUpper(c) \/ IsLower(c) \/ c = "_"
\* the line terminators `.` of a regular expression does not match
IsLineTerminator(c) == c \in {CR, LF}
IsWhiteSpace(c) == c \in {" ", CR, LF}

\* value of c as a digit in the given radix, or -1: letters of either case
\* stand for 10, 11, ...
LowerHexDigits == DecDigits \o <<"a", "b", "c", "d", "e", "f">>
DigitValue(c, radix) ==
    IF \E i \in 1..radix : c = HexDigits[i] \/ c = LowerHexDigits[i]
    THEN (CHOOSE i \in 1..radix : c = HexDigits[i] \/ c = LowerHexDigits[i]) - 1
    ELSE -1

\* the bitwise ^ of two non-negative integers, bit by bit
RECURSIVE XorBits(_, _)
XorBits(a, b) ==
    IF a = 0 THEN b
    ELSE IF b = 0 THEN a
    ELSE ((a + b) % 2) + 2 * XorBits(a \div 2, b \div 2)

\* ^ tabulated for the character codes, which are all below 128
XorTable == [a \in 0..127 |-> [b \in 0..127 |-> XorBits(a, b)]]
Xor(a, b) == XorTable[a][b]

RECURSIVE Pow10(_)
Pow10(k) == IF k = 0 THEN 1 ELSE 10 * Pow10(k - 1)

Abs(x) == IF x < 0 THEN -x ELSE x

\* the element of a one-element set: {e(v) : v \in {x}} computes x once
\* and names it v in e
The(S) == CHOOSE x \in S : TRUE

----------------------------------------------------------------------------
(* Strings *)

\* what indexing an array past its end, or an omitted property, gives
Undefined == <<"undefined">>

Min(a, b) == IF a < b THEN a ELSE b
Max(a, b) == IF a > b THEN a ELSE b

\* String.prototype.slice(start, end), 0-based, end exclusive
slice(s, start, end) ==
    LET n    == Len(s)
        from == IF start < 0 THEN Max(n + start, 0) ELSE Min(start, n)
        to   == IF end < 0 THEN Max(n + end, 0) ELSE Min(end, n)
    IN  IF from >= to THEN <<>> ELSE SubSeq(s, from + 1, to)

\* String.prototype.slice(start)
sliceFrom(s, start) == slice(s, start, Len(s))

startsWith(s, c) == Len(s) >= 1 /\ s[1] = c
includes(s, c) == \E i \in DOMAIN s : s[i] = c

\* String.prototype.split(sep) for a one-character separator
RECURSIVE split(_, _)
split(s, sep) ==
    IF ~includes(s, sep) THEN <<s>>
    ELSE LET i == CHOOSE k \in DOMAIN s :
                      s[k] = sep /\ \A j \in 1..(k - 1) : s[j] # sep
         IN  <<SubSeq(s, 1, i - 1)>> \o split(SubSeq(s, i + 1, Len(s)), sep)

\* array element i (0-based), undefined past the end
At(parts, i) == IF i < Len(parts) THEN parts[i + 1] ELSE Undefined

\* truthiness of a string or undefined
Truthy(s) == s # Undefined /\ s # <<>>

RECURSIVE padStart(_, _, _)
padStart(s, width, c) ==
    IF Len(s) >= width THEN s ELSE padStart(<<c>> \o s, width, c)

\* decimal digits of a non-negative integer
RECURSIVE IntToString(_)
IntToString(n) ==
    IF n < 10 THEN <<DecDigits[n + 1]>>
    ELSE IntToString(n \div 10) \o <<DecDigits[(n % 10) + 1]>>

\* Number.prototype.toString(16).toUpperCase() of a non-negative integer
RECURSIVE ToHexUpper(_)
ToHexUpper(n) ==
    IF n < 16 THEN <<HexDigits[n + 1]>>
    ELSE ToHexUpper(n \div 16) \o <<HexDigits[(n % 16) + 1]>>

----------------------------------------------------------------------------
(* Numbers *)

NaN == [n |-> 0, d |-> 0]
Num(n, d) == [n |-> n, d |-> d]
IsNaN(x) == x.d = 0

\* length of the longest prefix of s made of digits of the radix
RECURSIVE DigitRun(_, _)
DigitRun(s, radix) ==
    IF s = <<>> \/ s = Undefined THEN 0
    ELSE IF DigitValue(s[1], radix) < 0 THEN 0
    ELSE 1 + DigitRun(Tail(s), radix)

\* value of a string of digits
RECURSIVE DigitsValue(_, _)
DigitsValue(s, radix) ==
    IF s = <<>> THEN 0
    ELSE DigitsValue(SubSeq(s, 1, Len(s) - 1), radix) * radix
            + DigitValue(s[Len(s)], radix)

RECURSIVE TrimStart(_)
TrimStart(s) ==
    IF s # <<>> /\ s # Undefined /\ IsWhiteSpace(s[1]) THEN TrimStart(Tail(s))
    ELSE s

\* the number a sign and a string of digits denote, over a power of ten
SignedDigits(neg, digits, radix, scale) ==
    IF neg THEN Num(-DigitsValue(digits, radix), scale)
    ELSE Num(DigitsValue(digits, radix), scale)

\* v is the string after the sign and the prefix
ParseIntDigits(neg, v, radix) ==
    IF DigitRun(v, radix) = 0 THEN NaN
    ELSE SignedDigits(neg, SubSeq(v, 1, DigitRun(v, radix)), radix, 1)

\* u is the string after the sign
ParseIntPrefix(neg, u, radix) ==
    IF radix = 16 /\ Len(u) >= 2 /\ u[1] = "0" /\ u[2] \in {"x", "X"}
    THEN ParseIntDigits(neg, SubSeq(u, 3, Len(u)), radix)
    ELSE ParseIntDigits(neg, u, radix)

\* t is the string after the white space
ParseIntSign(t, radix) ==
    IF t # <<>> /\ t[1] \in {"-", "+"}
    THEN ParseIntPrefix(t[1] = "-", Tail(t), radix)
    ELSE ParseIntPrefix(FALSE, t, radix)

\* parseInt(s, radix): optional white space, sign, 0x prefix (radix 16),
\* then the longest run of digits; NaN when there is none.
parseInt(str, radix) == ParseIntSign(TrimStart(str), radix)

\* k integer digits, then rest; f fraction digits follow the `.` of rest
ParseFloatValue(neg, u, k, rest, f) ==
    IF k + f = 0 THEN NaN
    ELSE SignedDigits(neg, SubSeq(u, 1, k) \o SubSeq(rest, 2, f + 1), 10, Pow10(f))

ParseFloatFraction(neg, u, k, rest) ==
    IF rest # <<>> /\ rest[1] = "."
    THEN ParseFloatValue(neg, u, k, rest, DigitRun(Tail(rest), 10))
    ELSE ParseFloatValue(neg, u, k, rest, 0)

\* u is the string after the sign
ParseFloatDigits(neg, u) ==
    IF u = Undefined THEN NaN
    ELSE ParseFloatFraction(neg, u, DigitRun(u, 10),
                            SubSeq(u, DigitRun(u, 10) + 1, Len(u)))

\* t is the string after the white space
ParseFloatSign(t) ==
    IF t # <<>> /\ t[1] \in {"-", "+"}
    THEN ParseFloatDigits(t[1] = "-", Tail(t))
    ELSE ParseFloatDigits(FALSE, t)

\* parseFloat(s): optional white space, sign, digits, `.`, digits; NaN when
\* there is no digit.  (Exponents and "Infinity" are outside the inputs.)
parseFloat(str) == ParseFloatSign(TrimStart(str))

\* Number.prototype.toFixed(precision) of a fraction: the nearest decimal,
\* a tie going to the larger magnitude; "NaN" for NaN.
RECURSIVE FracDigits(_, _, _)
FracDigits(r, d, precision) ==
    \* <<floor(r * 10^precision / d), remainder>> for 0 <= r < d
    IF precision = 0 THEN <<0, r>>
    ELSE LET prev == FracDigits(r, d, precision - 1)
         IN  <<prev[1] * 10 + (prev[2] * 10) \div d, (prev[2] * 10) % d>>

\* a faulty toFixed: the digits past the precision are cut off, not rounded
toFixed_Truncating(x, precision) ==
    IF IsNaN(x) THEN <<"N", "a", "N">>
    ELSE (IF x.n < 0 THEN <<"-">> ELSE <<>>)
         \o IntToString(Abs(x.n) \div x.d)
         \o (IF precision = 0 THEN <<>>
             ELSE <<".">> \o padStart(IntToString(
                     FracDigits(Abs(x.n) % x.d, x.d, precision)[1]), precision, "0"))

toFixed(x, precision) ==
    IF IsNaN(x) THEN <<"N", "a", "N">>
    ELSE
    LET a     == Abs(x.n)
        q     == a \div x.d
        fr    == FracDigits(a % x.d, x.d, precision)
        up    == 2 * fr[2] >= x.d
        f1    == IF up THEN fr[1] + 1 ELSE fr[1]
        carry == f1 = Pow10(precision)
        ip    == IF carry THEN q + 1 ELSE q
        fp    == IF carry THEN 0 ELSE f1
        sign  == IF x.n < 0 THEN <<"-">> ELSE <<>>
    IN  sign \o IntToString(ip)
             \o (IF precision = 0 THEN <<>>
                 ELSE <<".">> \o padStart(IntToString(fp), precision, "0"))

----------------------------------------------------------------------------
(* Dates *)

MsPerMinute == 60 * 1000
MsPerHour   == 60 * 60 * 1000
MsPerDay    == 24 * 60 * 60 * 1000

Date(day, ms) == [day |-> day, ms |-> ms]
InvalidDate   == [day |-> 0, ms |-> -1]
\* an omitted timestamp, or the `undefined` parseTime returns
UndefinedDate == [day |-> 0, ms |-> -2]
IsValidDate(t) == t.ms >= 0

getUTCHours(t)        == t.ms \div MsPerHour
getUTCMinutes(t)      == (t.ms \div MsPerMinute) % 60
getUTCSeconds(t)      == (t.ms \div 1000) % 60
getUTCMilliseconds(t) == t.ms % 1000

\* <<year, month (1..12), day of month>> of a day number (proleptic Gregorian)
CivilFromDays(day) ==
    LET z   == day + 719468
        era == z \div 146097
        doe == z - era * 146097
        yoe == (doe - doe \div 1460 + doe \div 36524 - doe \div 146096) \div 365
        doy == doe - (365 * yoe + yoe \div 4 - yoe \div 100)
        mp  == (5 * doy + 2) \div 153
        d   == doy - (153 * mp + 2) \div 5 + 1
        m   == IF mp < 10 THEN mp + 3 ELSE mp - 9
        y   == yoe + era * 400 + (IF m <= 2 THEN 1 ELSE 0)
    IN  <<y, m, d>>

getUTCFullYear(t) == CivilFromDays(t.day)[1]
\* 0-based month, as the runtime gives it
getUTCMonth(t)    == CivilFromDays(t.day)[2] - 1
getUTCDate(t)     == CivilFromDays(t.day)[3]

\* MakeDay(year, month, date) of ECMAScript: month is 0-based and may lie
\* outside 0..11, date may lie outside the month
MakeDay(year, month, date) ==
    LET ym  == year + (month \div 12)
        m   == (month % 12) + 1
        y   == IF m <= 2 THEN ym - 1 ELSE ym
        era == y \div 400
        yoe == y - era * 400
        doy == (153 * (IF m > 2 THEN m - 3 ELSE m + 9) + 2) \div 5
        doe == yoe * 365 + yoe \div 4 - yoe \div 100 + doy
    IN  era * 146097 + doe - 719468 + (date - 1)

MakeTime(hour, min, sec, ms) ==
    hour * MsPerHour + min * MsPerMinute + sec * 1000 + ms

MakeDate(day, time) == Date(day + (time \div MsPerDay), time % MsPerDay)

\* ToIntegerOrInfinity of a number that is not NaN: truncation towards zero
ToInteger(x) == IF x.n >= 0 THEN x.n \div x.d ELSE -((-x.n) \div x.d)

\* new Date(Date.UTC(year, month, date, hours, minutes, seconds))
DateUTC(year, month, date, hours, minutes, seconds) ==
    IF \E x \in {year, month, date, hours, minutes, seconds} : IsNaN(x)
    THEN InvalidDate
    ELSE LET yi == ToInteger(year)
             yr == IF yi >= 0 /\ yi <= 99 THEN 1900 + yi ELSE yi
         IN  MakeDate(MakeDay(yr, ToInteger(month), ToInteger(date)),
                      MakeTime(ToInteger(hours), ToInteger(minutes),
                               ToInteger(seconds), 0))

\* date.setUTCHours(hour, min, sec): the milliseconds stay those of `date`
setUTCHours(date, hour, min, sec) ==
    IF IsNaN(hour) \/ IsNaN(min) \/ IsNaN(sec) THEN InvalidDate
    ELSE MakeDate(date.day,
                  MakeTime(ToInteger(hour), ToInteger(min), ToInteger(sec),
                           getUTCMilliseconds(date)))

----------------------------------------------------------------------------
(* Encoder *)

pad(num, width, precision) == padStart(toFixed(num, precision), width, "0")

formatLatitude(lat) ==
    LET hemi    == IF lat.n >= 0 THEN "N" ELSE "S"
        a       == Abs(lat.n)
        degrees == a \div lat.d
        minutes == Num((a - degrees * lat.d) * 60, lat.d)
    IN  pad(Num(degrees, 1), 2, 0) \o pad(minutes, 7, 4) \o <<",", hemi>>

formatLongitude(lon) ==
    LET hemi    == IF lon.n >= 0 THEN "E" ELSE "W"
        a       == Abs(lon.n)
        degrees == a \div lon.d
        minutes == Num((a - degrees * lon.d) * 60, lon.d)
    IN  pad(Num(degrees, 1), 3, 0) \o pad(minutes, 7, 4) \o <<",", hemi>>

\* a faulty formatNMEATime: the milliseconds are not padded to three digits
formatNMEATime_UnpaddedMs(date, includeMs) ==
    LET h == pad(Num(getUTCHours(date), 1), 2, 0)
        m == pad(Num(getUTCMinutes(date), 1), 2, 0)
        s == pad(Num(getUTCSeconds(date), 1), 2, 0)
    IN  IF includeMs
        THEN h \o m \o s \o <<".">> \o pad(Num(getUTCMilliseconds(date), 1), 1, 0)
        ELSE h \o m \o s

formatNMEATime(date, includeMs) ==
    LET h == pad(Num(getUTCHours(date), 1), 2, 0)
        m == pad(Num(getUTCMinutes(date), 1), 2, 0)
        s == pad(Num(getUTCSeconds(date), 1), 2, 0)
    IN  IF includeMs
        THEN h \o m \o s \o <<".">> \o pad(Num(getUTCMilliseconds(date), 1), 3, 0)
        ELSE h \o m \o s

\* a faulty formatNMEADate: the month is written 0-based, as getUTCMonth
\* gives it
formatNMEADate_ZeroBasedMonth(date) ==
    LET d == pad(Num(getUTCDate(date), 1), 2, 0)
        m == pad(Num(getUTCMonth(date), 1), 2, 0)
        y == pad(Num(getUTCFullYear(date) % 100, 1), 2, 0)
    IN  d \o m \o y

formatNMEADate(date) ==
    LET d == pad(Num(getUTCDate(date), 1), 2, 0)
        m == pad(Num(getUTCMonth(date) + 1, 1), 2, 0)
        y == pad(Num(getUTCFullYear(date) % 100, 1), 2, 0)
    IN  d \o m \o y

\* XOR of the character codes of s[lo..hi] (1-based, inclusive).  The loops
\* of both calculateChecksum functions fold ^ over the characters from left
\* to right; ^ is associative, and the fold is evaluated here by halves.
RECURSIVE XorCodes(_, _, _)
XorCodes(s, lo, hi) ==
    IF lo > hi THEN 0
    ELSE IF lo = hi THEN charCodeAt(s[lo])
    ELSE LET mid == (lo + hi) \div 2
         IN  Xor(XorCodes(s, lo, mid), XorCodes(s, mid + 1, hi))

\* 1-based index at which the encoder's loop stops: the first `*` after
\* the leading character, or one past the end
ChecksumEnd(s) ==
    IF \E k \in 2..Len(s) : s[k] = "*"
    THEN CHOOSE k \in 2..Len(s) : s[k] = "*" /\ \A j \in 2..(k - 1) : s[j] # "*"
    ELSE Len(s) + 1

\* a faulty calculateChecksum: toUpperCase() is left out
encoderChecksum_LowerCase(s) ==
    LET upper == padStart(ToHexUpper(XorCodes(s, 2, ChecksumEnd(s) - 1)), 2, "0")
    IN  <<"*">> \o [i \in DOMAIN upper |->
                      LowerHexDigits[CHOOSE k \in DOMAIN HexDigits : HexDigits[k] = upper[i]]]

\* a faulty calculateChecksum: the loop starts at index 0 and so takes in `$`
encoderChecksum_FromDollar(s) ==
    <<"*">> \o padStart(ToHexUpper(XorCodes(s, 1, ChecksumEnd(s) - 1)), 2, "0")

\* calculateChecksum of the encoder: `*` and two upper-case hex digits over
\* the characters from index 1 up to the first `*`
encoderChecksum(s) ==
    <<"*">> \o padStart(ToHexUpper(XorCodes(s, 2, ChecksumEnd(s) - 1)), 2, "0")

\* a faulty resolveTime: the position's timestamp is looked at first
resolveTime_PositionFirst(p, o, now) ==
    IF p.timestamp # UndefinedDate THEN p.timestamp
    ELSE IF o.present /\ o.timestamp # UndefinedDate THEN o.timestamp
    ELSE now

\* `now` is what `new Date()` gives at the call
resolveTime(p, o, now) ==
    IF o.present /\ o.timestamp # UndefinedDate THEN o.timestamp
    ELSE IF p.timestamp # UndefinedDate THEN p.timestamp
    ELSE now

\* options?.includeMs ?? false
IncludeMs(o) == o.present /\ o.includeMs = "true"

Str_GPRMC == <<"$", "G", "P", "R", "M", "C">>
Str_GPGGA == <<"$", "G", "P", "G", "G", "A">>
Comma == <<",">>

\* a faulty generateGPRMC: the status is V (void)
generateGPRMC_Void(p, o, now) ==
    LET speedKnots == Num(p.speed.n * 194384, p.speed.d * 100000)
        time       == resolveTime(p, o, now)
        includeMs  == IncludeMs(o)
        body       ==
            Str_GPRMC \o Comma \o formatNMEATime(time, includeMs) \o <<",", "V", ",">>
            \o formatLatitude(p.latitude) \o Comma
            \o formatLongitude(p.longitude) \o Comma
            \o toFixed(speedKnots, 1) \o Comma \o toFixed(p.heading, 1) \o Comma
            \o formatNMEADate(time) \o <<",", ",", ",", "A">>
    IN  body \o encoderChecksum(body)

generateGPRMC(p, o, now) ==
    LET speedKnots == Num(p.speed.n * 194384, p.speed.d * 100000)
        time       == resolveTime(p, o, now)
        includeMs  == IncludeMs(o)
        body       ==
            Str_GPRMC \o Comma \o formatNMEATime(time, includeMs) \o <<",", "A", ",">>
            \o formatLatitude(p.latitude) \o Comma
            \o formatLongitude(p.longitude) \o Comma
            \o toFixed(speedKnots, 1) \o Comma \o toFixed(p.heading, 1) \o Comma
            \o formatNMEADate(time) \o <<",", ",", ",", "A">>
    IN  body \o encoderChecksum(body)

generateGPGGA(p, o, now) ==
    LET time      == resolveTime(p, o, now)
        includeMs == IncludeMs(o)
        body      ==
            Str_GPGGA \o Comma \o formatNMEATime(time, includeMs) \o Comma
            \o formatLatitude(p.latitude) \o Comma
            \o formatLongitude(p.longitude) \o Comma
            \o <<"1", ",", "0", "8", ",", "0", ".", "9", ",">>
            \o toFixed(p.altitude, 1)
            \o <<",", "M", ",", "0", ".", "0", ",", "M", ",", ",">>
    IN  body \o encoderChecksum(body)

----------------------------------------------------------------------------
(* Decoder *)

\* arithmetic on fractions; NaN propagates
Add(x, y) ==
    IF IsNaN(x) \/ IsNaN(y) THEN NaN ELSE Num(x.n * y.d + y.n * x.d, x.d * y.d)
DivInt(x, k) == IF IsNaN(x) THEN NaN ELSE Num(x.n, x.d * k)
Neg(x) == IF IsNaN(x) THEN NaN ELSE Num(-x.n, x.d)

\* a faulty parseLatitude: the degrees are taken to be three digits, as for a
\* longitude
parseLatitude_ThreeDigits(raw, direction) ==
    IF ~Truthy(raw) THEN NaN
    ELSE LET deg == parseInt(slice(raw, 0, 3), 10)
             min == parseFloat(sliceFrom(raw, 3))
             lat == Add(deg, DivInt(min, 60))
         IN  IF direction = <<"S">> THEN Neg(lat) ELSE lat

parseLatitude(raw, direction) ==
    IF ~Truthy(raw) THEN NaN
    ELSE LET deg == parseInt(slice(raw, 0, 2), 10)
             min == parseFloat(sliceFrom(raw, 2))
             lat == Add(deg, DivInt(min, 60))
         IN  IF direction = <<"S">> THEN Neg(lat) ELSE lat

\* a faulty parseLongitude: every letter but E gives a negative longitude
parseLongitude_NotEast(raw, direction) ==
    IF ~Truthy(raw) THEN NaN
    ELSE LET deg == parseInt(slice(raw, 0, 3), 10)
             min == parseFloat(sliceFrom(raw, 3))
             lon == Add(deg, DivInt(min, 60))
         IN  IF direction # <<"E">> THEN Neg(lon) ELSE lon

parseLongitude(raw, direction) ==
    IF ~Truthy(raw) THEN NaN
    ELSE LET deg == parseInt(slice(raw, 0, 3), 10)
             min == parseFloat(sliceFrom(raw, 3))
             lon == Add(deg, DivInt(min, 60))
         IN  IF direction = <<"W">> THEN Neg(lon) ELSE lon

\* a faulty parseTime: the test for an empty field is left out
parseTime_NoEmptyTest(timeStr, now) ==
    LET hh == parseInt(slice(timeStr, 0, 2), 10)
        mm == parseInt(slice(timeStr, 2, 4), 10)
        ss == parseFloat(sliceFrom(timeStr, 4))
    IN  setUTCHours(now, hh, mm, ss)

\* `now` is what `new Date()` gives at the call
parseTime(timeStr, now) ==
    IF ~Truthy(timeStr) THEN UndefinedDate
    ELSE LET hh == parseInt(slice(timeStr, 0, 2), 10)
             mm == parseInt(slice(timeStr, 2, 4), 10)
             ss == parseFloat(sliceFrom(timeStr, 4))
         IN  setUTCHours(now, hh, mm, ss)

\* a faulty parseDateTime: two-digit years from 80 on are taken to lie in
\* the twentieth century
parseDateTime_Pivot(dateStr, timeStr) ==
    LET dd == parseInt(slice(dateStr, 0, 2), 10)
        mo == Add(parseInt(slice(dateStr, 2, 4), 10), Num(-1, 1))
        y2 == parseInt(sliceFrom(dateStr, 4), 10)
        yy == Add(y2, IF ~IsNaN(y2) /\ y2.n >= 80 * y2.d THEN Num(1900, 1) ELSE Num(2000, 1))
        hh == parseInt(slice(timeStr, 0, 2), 10)
        mm == parseInt(slice(timeStr, 2, 4), 10)
        ss == parseFloat(sliceFrom(timeStr, 4))
    IN  DateUTC(yy, mo, dd, hh, mm, ss)

\* for strings; on undefined the first slice throws (see parseRMC)
parseDateTime(dateStr, timeStr) ==
    LET dd == parseInt(slice(dateStr, 0, 2), 10)
        mo == Add(parseInt(slice(dateStr, 2, 4), 10), Num(-1, 1))
        yy == Add(parseInt(sliceFrom(dateStr, 4), 10), Num(2000, 1))
        hh == parseInt(slice(timeStr, 0, 2), 10)
        mm == parseInt(slice(timeStr, 2, 4), 10)
        ss == parseFloat(sliceFrom(timeStr, 4))
    IN  DateUTC(yy, mo, dd, hh, mm, ss)

\* calculateChecksum of the decoder: XOR of every character code
calculateChecksum(nmeaData) == XorCodes(nmeaData, 1, Len(nmeaData))

\* a thrown Error: its message, and the values interpolated in it
Error(message, args) == [error |-> message, args |-> args]
IsError(r) == "error" \in DOMAIN r
\* the TypeError of calling a method of undefined
TypeError == Error("TypeError", <<>>)

Str_GGA == <<"G", "G", "A">>
Str_RMC == <<"R", "M", "C">>

\* a faulty parseGGA: the differential fields are set without testing the
\* raw fields
parseGGA_AlwaysDifferential(parts, talkerId, sentenceId, now) ==
    [ sentenceId         |-> sentenceId,
      talkerId           |-> talkerId,
      type               |-> Str_GGA,
      time               |-> parseTime(At(parts, 1), now),
      latitude           |-> parseLatitude(At(parts, 2), At(parts, 3)),
      longitude          |-> parseLongitude(At(parts, 4), At(parts, 5)),
      fixType            |-> parseInt(At(parts, 6), 10),
      satellitesInView   |-> parseInt(At(parts, 7), 10),
      horizontalDilution |-> parseFloat(At(parts, 8)),
      altitudeMeters     |-> parseFloat(At(parts, 9)),
      geoidalSeperation  |-> parseFloat(At(parts, 11)),
      differentialAge    |-> parseFloat(At(parts, 13)),
      differentialRefStn |-> IF Truthy(At(parts, 14)) THEN At(parts, 14) ELSE <<>> ]

parseGGA(parts, talkerId, sentenceId, now) ==
    LET base ==
            [ sentenceId         |-> sentenceId,
              talkerId           |-> talkerId,
              type               |-> Str_GGA,
              time               |-> parseTime(At(parts, 1), now),
              latitude           |-> parseLatitude(At(parts, 2), At(parts, 3)),
              longitude          |-> parseLongitude(At(parts, 4), At(parts, 5)),
              fixType            |-> parseInt(At(parts, 6), 10),
              satellitesInView   |-> parseInt(At(parts, 7), 10),
              horizontalDilution |-> parseFloat(At(parts, 8)),
              altitudeMeters     |-> parseFloat(At(parts, 9)),
              geoidalSeperation  |-> parseFloat(At(parts, 11)) ]
        age == IF Truthy(At(parts, 13))
               THEN [differentialAge |-> parseFloat(At(parts, 13))]
               ELSE <<>>
        stn == IF Truthy(At(parts, 14))
               THEN [differentialRefStn |-> split(At(parts, 14), "*")[1]]
               ELSE <<>>
    IN  base @@ age @@ stn

parseRMC(parts, talkerId, sentenceId) ==
    IF At(parts, 9) = Undefined \/ At(parts, 1) = Undefined
    THEN TypeError  \* dateStr.slice / timeStr.slice in parseDateTime
    ELSE
    [ sentenceId    |-> sentenceId,
      talkerId      |-> talkerId,
      type          |-> Str_RMC,
      datetime      |-> parseDateTime(At(parts, 9), At(parts, 1)),
      status        |-> At(parts, 2),
      latitude      |-> parseLatitude(At(parts, 3), At(parts, 4)),
      longitude     |-> parseLongitude(At(parts, 5), At(parts, 6)),
      speedKnots    |-> parseFloat(At(parts, 7)),
      trackTrue     |-> parseFloat(At(parts, 8)),
      variation     |-> IF Truthy(At(parts, 10)) THEN parseFloat(At(parts, 10)) ELSE NaN,
      variationPole |-> IF Truthy(At(parts, 11)) THEN At(parts, 11) ELSE <<>>,
      faaMode       |-> IF Truthy(At(parts, 12)) THEN split(At(parts, 12), "*")[1] ELSE <<>> ]

\* sentence.match(/\$(.*)\*(\w{2})$/) is not null
MatchesChecksumPattern(s) ==
    \E i \in DOMAIN s :
        /\ s[i] = "$"
        /\ Len(s) - 2 > i
        /\ s[Len(s) - 2] = "*"
        /\ IsWordChar(s[Len(s) - 1]) /\ IsWordChar(s[Len(s)])
        /\ \A j \in (i + 1)..(Len(s) - 3) : ~IsLineTerminator(s[j])

\* a faulty switch: no default case, whatever is not RMC is read as GGA
Switch_NoDefault(parts, now) ==
    LET id         == At(parts, 0)
        talkerId   == slice(id, 0, 2)
        sentenceId == sliceFrom(id, 2)
    IN  IF sentenceId = Str_RMC THEN parseRMC(parts, talkerId, sentenceId)
        ELSE parseGGA(parts, talkerId, sentenceId, now)

\* the switch of parseNmeaSentence, on the fields of the data part
Switch(parts, now) ==
    LET id         == At(parts, 0)
        talkerId   == slice(id, 0, 2)
        sentenceId == sliceFrom(id, 2)
    IN  IF sentenceId = Str_GGA THEN parseGGA(parts, talkerId, sentenceId, now)
        ELSE IF sentenceId = Str_RMC THEN parseRMC(parts, talkerId, sentenceId)
        ELSE Error("Unsupported sentence type: ", <<sentenceId>>)

\* the part of both decoders after the checks: field split and dispatch
Dispatch(dataPart, now) ==
    LET sentenceData == <<"$">> \o dataPart
    IN  The({Switch(parts, now) : parts \in {split(sliceFrom(sentenceData, 1), ",")}})

\* the checks of src/index.ts on the two pieces, then the dispatch
CheckAndDispatch(s, dataPart, checksum, enable, now) ==
    IF ~enable /\ ~MatchesChecksumPattern(s)
    THEN Error("Invalid NMEA sentence: unable to extract checksum", <<>>)
    ELSE IF enable /\ Num(calculateChecksum(dataPart), 1) # parseInt(checksum, 16)
    THEN Error("Checksum mismatch", <<>>)
    ELSE Dispatch(dataPart, now)

\* a faulty frame check: only the leading `$` is looked for
parseNmeaSentence_DollarOnly(s, enable, now) ==
    IF ~startsWith(s, "$")
    THEN Error("Invalid NMEA sentence", <<>>)
    ELSE The({CheckAndDispatch(s, At(pieces, 0), At(pieces, 1), enable, now) :
                 pieces \in {split(sliceFrom(s, 1), "*")}})

\* parseNmeaSentence of src/index.ts
parseNmeaSentence(s, enable, now) ==
    IF ~startsWith(s, "$") \/ ~includes(s, "*")
    THEN Error("Invalid NMEA sentence", <<>>)
    ELSE The({CheckAndDispatch(s, At(pieces, 0), At(pieces, 1), enable, now) :
                 pieces \in {split(sliceFrom(s, 1), "*")}})

\* a faulty order of the checks: the dispatch comes first, and its error wins
CheckAndDispatchDoc_DispatchFirst(dataPart, checksum, enable, now) ==
    IF IsError(Dispatch(dataPart, now))
    THEN Dispatch(dataPart, now)
    ELSE IF enable /\ Num(calculateChecksum(dataPart), 1) # parseInt(checksum, 16)
    THEN Error("Checksum mismatch: expected , calculated ",
               <<checksum, ToHexUpper(calculateChecksum(dataPart))>>)
    ELSE Dispatch(dataPart, now)

\* the check of src/nmeaEncoder.ts on the two pieces, then the dispatch
CheckAndDispatchDoc(dataPart, checksum, enable, now) ==
    IF enable /\ Num(calculateChecksum(dataPart), 1) # parseInt(checksum, 16)
    THEN Error("Checksum mismatch: expected , calculated ",
               <<checksum, ToHexUpper(calculateChecksum(dataPart))>>)
    ELSE Dispatch(dataPart, now)

\* parseNmeaSentence of src/nmeaEncoder.ts
parseNmeaSentenceDoc(s, enable, now) ==
    IF ~startsWith(s, "$") \/ ~includes(s, "*")
    THEN Error("Invalid NMEA sentence", <<>>)
    ELSE The({CheckAndDispatchDoc(At(pieces, 0), At(pieces, 1), enable, now) :
                 pieces \in {split(sliceFrom(s, 1), "*")}})

----------------------------------------------------------------------------
(* Inputs *)

\* coordinates are given in units of 10^-7 degree
CoordUnit == 10 * 1000 * 1000
Degrees(whole, fraction) ==
    IF whole < 0 \/ fraction < 0
    THEN Num(-(Abs(whole) * CoordUnit + Abs(fraction)), CoordUnit)
    ELSE Num(whole * CoordUnit + fraction, CoordUnit)

TrackPosition(lat, lon, alt, speed, heading) ==
    [ latitude |-> lat, longitude |-> lon, altitude |-> alt, speed |-> speed,
      heading |-> heading, timestamp |-> UndefinedDate ]

\* the position of the encoder's tests: 40.7831, -73.9712, 3657.6 m, 72 m/s
Pos_Test == TrackPosition(Degrees(40, 7831000), Degrees(-73, 9712000),
                          Num(36576, 10), Num(72, 1), Num(90, 1))
\* the same place at altitude 10 m
Pos_Low  == TrackPosition(Degrees(40, 7831000), Degrees(-73, 9712000),
                          Num(10, 1), Num(72, 1), Num(90, 1))
\* the pole, at rest
Pos_Pole == TrackPosition(Degrees(90, 0), Degrees(0, 0),
                          Num(0, 1), Num(0, 1), Num(0, 1))
\* south-west, values that round up at the last rendered digit
Pos_SW   == TrackPosition(Degrees(0, -9999999), Degrees(-179, 9999999),
                          Num(-4, 100), Num(5, 10), Num(35995, 100))

BasePositions == {Pos_Test, Pos_Low, Pos_Pole, Pos_SW}

\* Date.UTC(2025, 6, 4, 12, 34, 56, 789) of the encoder's tests
Time_Test     == Date(20273, 45296789)
\* 2025-07-04 00:00:29.000
Time_Midnight == Date(20273, 29000)
\* 2000-01-01 00:00:07.005
Time_Y2K      == Date(10957, 7005)
\* 1969-12-31 23:59:59.999
Time_PreEpoch == Date(-1, 86399999)

PositionTimestamps == {UndefinedDate, Time_Y2K}
Positions ==
    BasePositions
    \cup {[p EXCEPT !.timestamp = t] : p \in {Pos_Test}, t \in PositionTimestamps}

\* an omitted options argument
NoOptions == [present |-> FALSE, timestamp |-> UndefinedDate, includeMs |-> "undefined"]
EncodeOptions(timestamp, includeMs) ==
    [present |-> TRUE, timestamp |-> timestamp, includeMs |-> includeMs]

OptionsSet ==
    {NoOptions}
    \cup {EncodeOptions(UndefinedDate, "true")}
    \cup {EncodeOptions(Time_Test, ms) : ms \in {"true", "false"}}
    \cup {EncodeOptions(Time_Midnight, "undefined"), EncodeOptions(Time_PreEpoch, "true")}

\* the instants the wall clock shows, in order
ClockValues == <<Date(20761, 53640123), Date(20762, 3601040)>>

\* the sentences of src/index.test.ts
\* src/index.test.ts:6
Test_GGA_North ==
    << "$", "G", "P", "G", "G", "A", ",", "1", "2", "3", "5", "1", "9", ",",
       "4", "8", "0", "7", ".", "0", "3", "8", ",", "N", ",", "0", "1", "1",
       "3", "1", ".", "0", "0", "0", ",", "E", ",", "1", ",", "0", "8", ",",
       "0", ".", "9", ",", "5", "4", "5", ".", "4", ",", "M", ",", "4", "6",
       ".", "9", ",", "M", ",", ",", "*", "4", "7" >>
\* src/index.test.ts:19
Test_GGA_South ==
    << "$", "G", "P", "G", "G", "A", ",", "1", "2", "3", "5", "1", "9", ",",
       "3", "4", "5", "6", ".", "7", "8", "9", ",", "S", ",", "0", "5", "8",
       "2", "3", ".", "4", "5", "6", ",", "W", ",", "1", ",", "1", "0", ",",
       "1", ".", "0", ",", "1", "2", ".", "3", ",", "M", ",", "4", "6", ".",
       "9", ",", "M", ",", ",", "*", "6", "5" >>
\* src/index.test.ts:39
Test_RMC_North ==
    << "$", "G", "P", "R", "M", "C", ",", "1", "2", "3", "5", "1", "9", ",",
       "A", ",", "4", "8", "0", "7", ".", "0", "3", "8", ",", "N", ",", "0",
       "1", "1", "3", "1", ".", "0", "0", "0", ",", "E", ",", "0", "2", "2",
       ".", "4", ",", "0", "8", "4", ".", "4", ",", "2", "3", "0", "3", "9",
       "4", ",", "0", "0", "3", ".", "1", ",", "W", "*", "6", "A" >>
\* src/index.test.ts:52
Test_RMC_South ==
    << "$", "G", "P", "R", "M", "C", ",", "2", "3", "5", "9", "5", "9", ",",
       "A", ",", "3", "4", "5", "6", ".", "7", "8", "9", ",", "S", ",", "0",
       "5", "8", "2", "3", ".", "4", "5", "6", ",", "W", ",", "0", "0", "5",
       ".", "5", ",", "2", "7", "0", ".", "0", ",", "0", "1", "0", "1", "2",
       "5", ",", "0", "0", "1", ".", "1", ",", "E", "*", "6", "F" >>
\* src/index.test.ts:64
Test_RMC_Void ==
    << "$", "G", "P", "R", "M", "C", ",", "1", "2", "3", "5", "1", "9", ",",
       "V", ",", ",", ",", ",", ",", ",", ",", "2", "3", "0", "3", "9", "4",
       ",", ",", ",", "N", "*", "5", "3" >>
\* src/index.test.ts:87
Test_VTG ==
    << "$", "G", "P", "V", "T", "G", ",", "0", "5", "4", ".", "7", ",", "T",
       ",", "0", "3", "4", ".", "4", ",", "M", ",", "0", "0", "5", ".", "5",
       ",", "N", ",", "0", "1", "0", ".", "2", ",", "K", "*", "4", "8" >>
\* src/index.test.ts:94
Test_NoDollar ==
    << "G", "P", "G", "G", "A", ",", "1", "2", "3", "5", "1", "9", ",", "4",
       "8", "0", "7", ".", "0", "3", "8", ",", "N", ",", "0", "1", "1", "3",
       "1", ".", "0", "0", "0", ",", "E", ",", "1", ",", "0", "8", ",", "0",
       ".", "9", ",", "5", "4", "5", ".", "4", ",", "M", ",", "4", "6", ".",
       "9", ",", "M", ",", ",", "*", "4", "7" >>
\* src/index.test.ts:101
Test_Incomplete ==
    << "$", "G", "P", "G", "G", "A", ",", "1", "2", "3", "5", "1", "9", ",",
       "4", "8", "0", "7", ".", "0", "3", "8", ",", "N" >>
\* src/index.test.ts:138
Test_RMC_DateLine ==
    << "$", "G", "P", "R", "M", "C", ",", "1", "2", "0", "0", "0", "0", ",",
       "A", ",", "0", "0", "0", "0", ".", "0", "0", "0", ",", "S", ",", "1",
       "8", "0", "0", "0", ".", "0", "0", "0", ",", "W", ",", "0", "1", "5",
       ".", "0", ",", "2", "7", "0", ".", "0", ",", "0", "1", "0", "1", "2",
       "5", ",", ",", ",", "W", "*", "6", "A" >>

TestSentences ==
    {Test_GGA_North,
     Test_GGA_South,
     Test_RMC_North,
     Test_RMC_South,
     Test_RMC_Void,
     Test_VTG,
     Test_NoDollar,
     Test_Incomplete,
     Test_RMC_DateLine}

\* data parts, framed below with several checksum texts
Body_GGA ==
    << "G", "P", "G", "G", "A", ",", "1", "2", "3", "5", "1", "9", ",", "4",
       "8", "0", "7", ".", "0", "3", "8", ",", "N", ",", "0", "1", "1", "3",
       "1", ".", "0", "0", "0", ",", "E", ",", "1", ",", "0", "8", ",", "0",
       ".", "9", ",", "5", "4", "5", ".", "4", ",", "M", ",", "4", "6", ".",
       "9", ",", "M", ",", "," >>
Body_GGA_Differential ==
    << "G", "N", "G", "G", "A", ",", ",", ",", ",", ",", ",", ",", ",", ",",
       ",", ",", ",", ",", "3", ".", "2", ",", "0", "1", "2", "0" >>
Body_GGA_Bare ==
    << "G", "P", "G", "G", "A" >>
Body_RMC ==
    << "G", "P", "R", "M", "C", ",", "1", "2", "3", "5", "1", "9", ",", "A",
       ",", "4", "8", "0", "7", ".", "0", "3", "8", ",", "N", ",", "0", "1",
       "1", "3", "1", ".", "0", "0", "0", ",", "E", ",", "0", "2", "2", ".",
       "4", ",", "0", "8", "4", ".", "4", ",", "2", "3", "0", "3", "9", "4",
       ",", "0", "0", "3", ".", "1", ",", "W" >>
Body_RMC_Short ==
    << "G", "P", "R", "M", "C", ",", "1", "2", "3", "5", "1", "9", ",", "A" >>
Body_VTG ==
    << "G", "P", "V", "T", "G", ",", "0", "5", "4", ".", "7", ",", "T" >>
Body_LowerCase ==
    << "G", "P", "g", "g", "a", ",", "1", "2", "3", "5", "1", "9" >>
Body_LongId ==
    << "G", "P", "G", "G", "A", "X", ",", "1" >>
Body_NoTalker ==
    << "G", "G", "A", ",", "1", "2", "3", "5", "1", "9" >>
Body_Empty ==
    << >>

Bodies ==
    {Body_GGA,
     Body_GGA_Differential,
     Body_GGA_Bare,
     Body_RMC,
     Body_RMC_Short,
     Body_VTG,
     Body_LowerCase,
     Body_LongId,
     Body_NoTalker,
     Body_Empty}

Frame(body, checksum) == <<"$">> \o body \o <<"*">> \o checksum

\* checksum texts for a data part: the right one, and ways of getting it wrong
ChecksumTexts(body) ==
    LET x    == XorCodes(body, 1, Len(body))
        good == padStart(ToHexUpper(x), 2, "0")
    IN  { good,
          ToHexUpper(x),
          good \o <<"x">>,
          good \o <<CR, LF>>,
          <<"0", "x">> \o good,
          padStart(ToHexUpper(Xor(x, 1)), 2, "0"),
          <<>> }

\* every string over a few characters, up to a length
MaxRawLen == 3
RawAlphabet == {"$", "*", ",", "G"}
RECURSIVE StringsUpTo(_)
StringsUpTo(k) ==
    IF k = 0 THEN {<<>>}
    ELSE LET shorter == StringsUpTo(k - 1)
         IN  shorter \cup {Append(s, c) : s \in shorter, c \in RawAlphabet}

\* data parts with every positional field filled in
Body_GGA_Full ==
    << "G", "P", "G", "G", "A", ",", "1", "2", "3", "5", "1", "9", ",", "4",
       "8", "0", "7", ".", "0", "3", "8", ",", "N", ",", "0", "1", "1", "3",
       "1", ".", "0", "0", "0", ",", "E", ",", "2", ",", "0", "8", ",", "0",
       ".", "9", ",", "5", "4", "5", ".", "4", ",", "M", ",", "4", "6", ".",
       "9", ",", "M", ",", "3", ".", "2", ",", "0", "1", "2", "0" >>
Body_RMC_Full ==
    << "G", "P", "R", "M", "C", ",", "1", "2", "3", "5", "1", "9", ",", "V",
       ",", "4", "8", "0", "7", ".", "0", "3", "8", ",", "S", ",", "0", "1",
       "1", "3", "1", ".", "0", "0", "0", ",", "W", ",", "0", "2", "2", ".",
       "4", ",", "0", "8", "4", ".", "4", ",", "2", "3", "0", "3", "9", "4",
       ",", "0", "0", "3", ".", "1", ",", "W", ",", "D" >>
FullBodies == {Body_GGA_Full, Body_RMC_Full}

\* Array.prototype.join(",")
RECURSIVE Join(_)
Join(fields) ==
    IF Len(fields) = 0 THEN <<>>
    ELSE IF Len(fields) = 1 THEN fields[1]
    ELSE fields[1] \o <<",">> \o Join(Tail(fields))

\* a data part with the fields at the given (1-based) places emptied
Blanked(body, places) ==
    Join([i \in DOMAIN split(body, ",") |->
             IF i \in places THEN <<>> ELSE split(body, ",")[i]])

\* the fields after the identifier: up to MaxBlanked of them emptied, or all
MaxBlanked == 2
BlankPlaces(body) ==
    {places \in SUBSET (2..Len(split(body, ","))) : Cardinality(places) <= MaxBlanked}
    \cup {2..Len(split(body, ","))}

\* a data part framed with its own checksum
GoodFrame(body) ==
    Frame(body, padStart(ToHexUpper(XorCodes(body, 1, Len(body))), 2, "0"))

BlankedFrames ==
    UNION {{GoodFrame(Blanked(b, places)) : places \in BlankPlaces(b)} : b \in FullBodies}

\* RMC sentences with other dates: the first and the last day of the
\* century of the decoder, and the leap days of 2000 and 2096
RMCDates ==
    { <<"0", "1", "0", "1", "0", "0">>,
      <<"3", "1", "1", "2", "9", "9">>,
      <<"2", "9", "0", "2", "0", "0">>,
      <<"2", "9", "0", "2", "9", "6">> }
DatedFrames ==
    {GoodFrame(Join([split(Body_RMC_Full, ",") EXCEPT ![10] = d])) : d \in RMCDates}

RawSentences ==
    TestSentences
    \cup UNION {{Frame(b, c) : c \in ChecksumTexts(b)} : b \in Bodies}
    \cup StringsUpTo(MaxRawLen)
    \cup BlankedFrames
    \cup DatedFrames

\* what the channel may put in place of a character
ReplacementChars == {"*", ",", "A"}

----------------------------------------------------------------------------
(* The codec in use.  Every call is independent of every other, so one   *)
(* behaviour follows one sentence: it is generated or received, the       *)
(* channel may damage it, and a decoder is called on it.                  *)

NoPacket == Error("none", <<>>)

Init ==
    /\ clock = ClockValues[1]
    /\ pos = Pos_Test
    /\ options = NoOptions
    /\ sentence = <<>>
    /\ origin = "none"
    /\ channel = "intact"
    /\ enableChecksum = FALSE
    /\ packet = NoPacket
    /\ op = "init"

\* the wall clock advances while a received sentence waits for its decoder
\* (the encoders' reading of the clock is varied in their own properties)
Tick ==
    /\ origin = "received"
    /\ packet = NoPacket
    /\ \E i \in 1..(Len(ClockValues) - 1) :
          /\ clock = ClockValues[i]
          /\ clock' = ClockValues[i + 1]
    /\ op' = "Tick"
    /\ UNCHANGED <<pos, options, sentence, origin, channel, enableChecksum, packet>>

GenerateGPRMC ==
    \E p \in Positions, o \in OptionsSet :
        /\ origin = "none"
        /\ pos' = p
        /\ options' = o
        /\ sentence' = generateGPRMC(p, o, clock)
        /\ origin' = "generateGPRMC"
        /\ channel' = "intact"
        /\ enableChecksum' = FALSE
        /\ packet' = NoPacket
        /\ op' = "generateGPRMC"
        /\ UNCHANGED clock

GenerateGPGGA ==
    \E p \in Positions, o \in OptionsSet :
        /\ origin = "none"
        /\ pos' = p
        /\ options' = o
        /\ sentence' = generateGPGGA(p, o, clock)
        /\ origin' = "generateGPGGA"
        /\ channel' = "intact"
        /\ enableChecksum' = FALSE
        /\ packet' = NoPacket
        /\ op' = "generateGPGGA"
        /\ UNCHANGED clock

\* a sentence arrives from elsewhere; nothing of an earlier call is kept
Receive ==
    \E s \in RawSentences :
        /\ origin = "none"
        /\ sentence' = s
        /\ origin' = "received"
        /\ channel' = "intact"
        /\ pos' = Pos_Test
        /\ options' = NoOptions
        /\ enableChecksum' = FALSE
        /\ packet' = NoPacket
        /\ op' = "Receive"
        /\ UNCHANGED clock

\* 1-based index of the `*` of an encoder frame
StarIndex(s) == CHOOSE k \in DOMAIN s : s[k] = "*"

\* the channel replaces one character strictly between `$` and `*` of an
\* encoder frame by a different one
Corrupt ==
    /\ origin \in {"generateGPRMC", "generateGPGGA"}
    /\ channel = "intact"
    /\ packet = NoPacket
    /\ \E i \in 2..(StarIndex(sentence) - 1) :
       \E c \in ReplacementChars \ {sentence[i]} :
          sentence' = [sentence EXCEPT ![i] = c]
    /\ channel' = "corrupted"
    /\ enableChecksum' = FALSE
    /\ packet' = NoPacket
    /\ op' = "Corrupt"
    /\ UNCHANGED <<clock, pos, options, origin>>

\* the channel cuts an encoder frame short
Truncate ==
    /\ origin \in {"generateGPRMC", "generateGPGGA"}
    /\ channel = "intact"
    /\ packet = NoPacket
    /\ \E k \in 0..(Len(sentence) - 1) : sentence' = SubSeq(sentence, 1, k)
    /\ channel' = "truncated"
    /\ enableChecksum' = FALSE
    /\ packet' = NoPacket
    /\ op' = "Truncate"
    /\ UNCHANGED <<clock, pos, options, origin>>

\* a call of parseNmeaSentence of src/index.ts
ParseNmeaSentence ==
    /\ origin # "none"
    /\ packet = NoPacket
    /\ \E enable \in BOOLEAN :
          /\ enableChecksum' = enable
          /\ packet' = parseNmeaSentence(sentence, enable, clock)
    /\ op' = "parseNmeaSentence"
    /\ UNCHANGED <<clock, pos, options, sentence, origin, channel>>

\* a call of parseNmeaSentence of src/nmeaEncoder.ts
ParseNmeaSentenceDoc ==
    /\ origin # "none"
    /\ packet = NoPacket
    /\ \E enable \in BOOLEAN :
          /\ enableChecksum' = enable
          /\ packet' = parseNmeaSentenceDoc(sentence, enable, clock)
    /\ op' = "parseNmeaSentenceDoc"
    /\ UNCHANGED <<clock, pos, options, sentence, origin, channel>>

Next ==
    \/ Tick
    \/ GenerateGPRMC
    \/ GenerateGPGGA
    \/ Receive
    \/ Corrupt
    \/ Truncate
    \/ ParseNmeaSentence
    \/ ParseNmeaSentenceDoc

Spec == Init /\ [][Next]_vars

----------------------------------------------------------------------------
(* The coordinate codec on its own: a coordinate is rendered by the        *)
(* encoder's formatLatitude / formatLongitude, and the rendered string and *)
(* hemisphere letter are decoded by parseLatitude / parseLongitude.        *)

\* fractions of a degree, in units of 10^-7 degree: none, the smallest, ones
\* whose minutes round up at the fourth decimal, halves, and ones whose
\* minutes round to 60.0000
CoordFractions == {0, 1, 8, 9, 25, 5000000, 7831000, 9712000, 9999991, 9999992, 9999999}

LatitudeDegrees  == {0, 1, 9, 40, 89}
LongitudeDegrees == {0, 1, 9, 73, 99, 100, 179}

Latitudes ==
    {Degrees(w, f) : w \in LatitudeDegrees, f \in CoordFractions}
    \cup {Degrees(-w, -f) : w \in LatitudeDegrees, f \in CoordFractions}
    \cup {Degrees(90, 0), Degrees(-90, 0)}

Longitudes ==
    {Degrees(w, f) : w \in LongitudeDegrees, f \in CoordFractions}
    \cup {Degrees(-w, -f) : w \in LongitudeDegrees, f \in CoordFractions}
    \cup {Degrees(180, 0), Degrees(-180, 0)}

\* the decoded coordinate, kept in `packet`
Coordinate(x) == [value |-> x]

FormatLatitude ==
    \E lat \in Latitudes :
        /\ origin = "none"
        /\ pos' = [pos EXCEPT !.latitude = lat]
        /\ sentence' = formatLatitude(lat)
        /\ origin' = "formatLatitude"
        /\ op' = "formatLatitude"
        /\ UNCHANGED <<clock, options, channel, enableChecksum, packet>>

FormatLongitude ==
    \E lon \in Longitudes :
        /\ origin = "none"
        /\ pos' = [pos EXCEPT !.longitude = lon]
        /\ sentence' = formatLongitude(lon)
        /\ origin' = "formatLongitude"
        /\ op' = "formatLongitude"
        /\ UNCHANGED <<clock, options, channel, enableChecksum, packet>>

\* the decoder is given the two fields of the rendered coordinate
ParseLatitude ==
    /\ origin = "formatLatitude"
    /\ packet = NoPacket
    /\ packet' = Coordinate(parseLatitude(At(split(sentence, ","), 0),
                                          At(split(sentence, ","), 1)))
    /\ op' = "parseLatitude"
    /\ UNCHANGED <<clock, pos, options, sentence, origin, channel, enableChecksum>>

ParseLongitude ==
    /\ origin = "formatLongitude"
    /\ packet = NoPacket
    /\ packet' = Coordinate(parseLongitude(At(split(sentence, ","), 0),
                                           At(split(sentence, ","), 1)))
    /\ op' = "parseLongitude"
    /\ UNCHANGED <<clock, pos, options, sentence, origin, channel, enableChecksum>>

NextCoord ==
    \/ FormatLatitude
    \/ FormatLongitude
    \/ ParseLatitude
    \/ ParseLongitude

SpecCoord == Init /\ [][NextCoord]_vars

----------------------------------------------------------------------------
(* The RMC date and time on their own: generateGPRMC is called with         *)
(* options.timestamp set, and a decoder is called on the frame.             *)

\* days since 1970-01-01: 1999-12-31, 2000-01-01, 2000-02-29, 2025-07-04,
\* 2096-02-29, 2099-12-31, 2100-01-01, 2100-03-01, 1900-03-01, 1969-12-31,
\* 1970-01-01
RoundTripDays ==
    {10956, 10957, 11016, 20273, 46080, 47481, 47482, 47541, -25508, -1, 0}
\* milliseconds of the day: 00:00:00.000, 00:00:07.005, 12:34:56.789,
\* 23:59:59.999
RoundTripTimes == {0, 7005, 45296789, 86399999}
RoundTripTimestamps == {Date(day, ms) : day \in RoundTripDays, ms \in RoundTripTimes}
IncludeMsValues == {"true", "false", "undefined"}

GenerateGPRMCAt ==
    \E t \in RoundTripTimestamps, ms \in IncludeMsValues :
        /\ origin = "none"
        /\ options' = EncodeOptions(t, ms)
        /\ sentence' = generateGPRMC(pos, EncodeOptions(t, ms), clock)
        /\ origin' = "generateGPRMC"
        /\ op' = "generateGPRMC"
        /\ UNCHANGED <<clock, pos, channel, enableChecksum, packet>>

NextRoundTrip ==
    \/ GenerateGPRMCAt
    \/ ParseNmeaSentence
    \/ ParseNmeaSentenceDoc

SpecRoundTrip == Init /\ [][NextRoundTrip]_vars

----------------------------------------------------------------------------
(* Properties of the codec *)

\* a decoder has just been called on `sentence`
Decoded == op \in {"parseNmeaSentence", "parseNmeaSentenceDoc"}
\* the call returned a record
Returned == Decoded /\ ~IsError(packet)
\* the call threw an error with this message
Raised(message) == Decoded /\ IsError(packet) /\ packet.error = message

\* `sentence` came from an encoder and reached the decoder as it was
FromEncoder == origin \in {"generateGPRMC", "generateGPGGA"}
Intact == FromEncoder /\ channel = "intact"

HasStar(s) == \E i \in DOMAIN s : s[i] = "*"

\* C1: a decoder call on a sentence that does not start with `$`, or that
\* holds no `*`, throws "Invalid NMEA sentence" and returns no record,
\* whether or not checksum validation is requested.
C1_InvalidFrame ==
    (Decoded /\ (sentence = <<>> \/ sentence[1] # "$" \/ ~HasStar(sentence)))
        => packet = Error("Invalid NMEA sentence", <<>>)

\* an encoder frame cut before its `*` was refused, with validation on
C1_Witness ==
    /\ Raised("Invalid NMEA sentence")
    /\ channel = "truncated"
    /\ enableChecksum
    /\ Len(sentence) > 6 /\ sentence[1] = "$" /\ ~HasStar(sentence)

FrameErrors ==
    {"Invalid NMEA sentence", "Invalid NMEA sentence: unable to extract checksum"}
ChecksumErrors ==
    {"Checksum mismatch", "Checksum mismatch: expected , calculated "}

\* the call got past the frame check and the checksum check
PassedChecks ==
    Decoded /\ (IsError(packet) => packet.error \notin FrameErrors \cup ChecksumErrors)

\* 1-based index of the first `,` or `*` after the leading character, or one
\* past the end
FirstFieldEnd(s) ==
    CHOOSE k \in 2..(Len(s) + 1) :
        /\ k = Len(s) + 1 \/ s[k] \in {",", "*"}
        /\ \A j \in 2..(k - 1) : s[j] \notin {",", "*"}
\* the first comma-delimited field of the data part
FirstField(s) == SubSeq(s, 2, FirstFieldEnd(s) - 1)

C3_EncoderFrameDecodes ==
    (Decoded /\ Intact /\ enableChecksum)
        => /\ ~IsError(packet)
           /\ origin = "generateGPGGA" => packet.type = Str_GGA
           /\ origin = "generateGPRMC" => packet.type = Str_RMC

\* a GPRMC frame with milliseconds was decoded by src/index.ts, validation on
C3_Witness ==
    /\ op = "parseNmeaSentence" /\ Intact /\ enableChecksum
    /\ origin = "generateGPRMC"
    /\ IncludeMs(options)
    /\ ~IsError(packet) /\ packet.type = Str_RMC

\* C4: after any single character strictly between the `$` and the `*` of an
\* encoder frame is replaced by a different character, decoding with
\* validation requested fails.
C4_CorruptionDetected ==
    (Decoded /\ FromEncoder /\ channel = "corrupted" /\ enableChecksum)
        => IsError(packet)

\* what the other validation mode of the same decoder gives on `sentence`
OtherMode ==
    IF op = "parseNmeaSentence"
    THEN parseNmeaSentence(sentence, ~enableChecksum, clock)
    ELSE parseNmeaSentenceDoc(sentence, ~enableChecksum, clock)

IsChecksumMismatch(r) == IsError(r) /\ r.error \in ChecksumErrors

\* C5: validation only adds the comparison: for every sentence, a record
\* returned with validation is returned without it too, and the two modes
\* throw the same frame and unsupported-type errors; the outcomes differ only
\* where validation throws the checksum mismatch.
C5_SameWithoutValidation ==
    Decoded =>
        LET validated   == IF enableChecksum THEN packet ELSE OtherMode
            unvalidated == IF enableChecksum THEN OtherMode ELSE packet
        IN  ~IsChecksumMismatch(validated) => unvalidated = validated

\* the bit of weight 2^b of the XOR of the character codes of s
XorBit(s, b) ==
    Cardinality({i \in DOMAIN s : (charCodeAt(s[i]) \div (2 ^ b)) % 2 = 1}) % 2
\* the XOR of the character codes of s (codes below 128)
XorOfCodes(s) ==
    XorBit(s, 0) + 2 * XorBit(s, 1) + 4 * XorBit(s, 2) + 8 * XorBit(s, 3)
    + 16 * XorBit(s, 4) + 32 * XorBit(s, 5) + 64 * XorBit(s, 6)

\* 1-based index of the first `*` of s at or after index from, or one past
\* the end
NextStar(s, from) ==
    CHOOSE k \in from..(Len(s) + 1) :
        /\ k = Len(s) + 1 \/ s[k] = "*"
        /\ \A j \in from..(k - 1) : s[j] # "*"
\* the data part and the transmitted checksum the decoders take from a frame
DataPart(s) == SubSeq(s, 2, NextStar(s, 2) - 1)
Transmitted(s) == SubSeq(s, NextStar(s, 2) + 1, NextStar(s, NextStar(s, 2) + 1) - 1)

\* C6: with validation requested, when the XOR over the data part differs
\* from the transmitted checksum read as hexadecimal, the call throws a
\* checksum-mismatch error that names the transmitted and the computed
\* value; without validation no checksum-mismatch error is thrown.
C6_MismatchNamesBoth ==
    (Decoded /\ sentence # <<>> /\ sentence[1] = "$" /\ HasStar(sentence)) =>
        /\ (enableChecksum
              /\ Num(XorOfCodes(DataPart(sentence)), 1)
                    # parseInt(Transmitted(sentence), 16))
            => /\ IsChecksumMismatch(packet)
               /\ packet.args = <<Transmitted(sentence),
                                  ToHexUpper(XorOfCodes(DataPart(sentence)))>>
        /\ ~enableChecksum => ~IsChecksumMismatch(packet)

UpperHex == {HexDigits[i] : i \in DOMAIN HexDigits}
HexValue(c) == (CHOOSE i \in DOMAIN HexDigits : HexDigits[i] = c) - 1

\* an encoder has just returned `sentence`
Encoded == op \in {"generateGPRMC", "generateGPGGA"}

\* C7: every string an encoder returns ends with `*` and exactly two
\* upper-case hexadecimal digits, which are the XOR of the character codes of
\* the characters strictly between the leading `$` and that `*`; no other `*`
\* occurs before it.
C7_EncoderChecksum ==
    Encoded =>
        LET n == Len(sentence)
        IN  /\ n >= 4
            /\ sentence[1] = "$"
            /\ sentence[n - 2] = "*"
            /\ \A i \in 1..(n - 3) : sentence[i] # "*"
            /\ sentence[n - 1] \in UpperHex /\ sentence[n] \in UpperHex
            /\ 16 * HexValue(sentence[n - 1]) + HexValue(sentence[n])
                   = XorOfCodes(SubSeq(sentence, 2, n - 3))

\* generateGPRMC returned the frame of its test, whose checksum is 4A
C7_Witness ==
    /\ op = "generateGPRMC"
    /\ pos = Pos_Test /\ options = EncodeOptions(Time_Test, "true")
    /\ SubSeq(sentence, Len(sentence) - 2, Len(sentence)) = <<"*", "4", "A">>

\* the comma-delimited fields of the frame an encoder returned; the time is
\* the second, and the date of a GPRMC frame the tenth
TimeField == split(sentence, ",")[2]
DateField == split(sentence, ",")[10]

OptionsTimestampDefined == options.present /\ options.timestamp # UndefinedDate

\* the timestamp the precedence rule selects
SelectedTime ==
    IF OptionsTimestampDefined THEN options.timestamp
    ELSE IF pos.timestamp # UndefinedDate THEN pos.timestamp
    ELSE clock

\* the frame the encoder of this state returns for another position
\* timestamp and another wall clock
Regenerated(t, now) ==
    IF op = "generateGPGGA"
    THEN generateGPGGA([pos EXCEPT !.timestamp = t], options, now)
    ELSE generateGPRMC([pos EXCEPT !.timestamp = t], options, now)

OtherTimestamps == PositionTimestamps \cup {Time_Test, Time_PreEpoch}
OtherClocks == {ClockValues[i] : i \in DOMAIN ClockValues} \cup {Time_Y2K}

\* C8: both encoders render the time (and generateGPRMC the date) from
\* options.timestamp when it is defined, else from position.timestamp when
\* that is defined, else from the wall clock at the call; when
\* options.timestamp is defined the frame depends neither on
\* position.timestamp nor on the wall clock.
C8_TimePrecedence ==
    Encoded =>
        /\ TimeField = formatNMEATime(SelectedTime, IncludeMs(options))
        /\ op = "generateGPRMC" => DateField = formatNMEADate(SelectedTime)
        /\ OptionsTimestampDefined =>
              \A t \in OtherTimestamps, now \in OtherClocks :
                  Regenerated(t, now) = sentence
        /\ (~OptionsTimestampDefined /\ pos.timestamp = UndefinedDate) =>
              \A now \in OtherClocks :
                  split(Regenerated(UndefinedDate, now), ",")[2]
                      = formatNMEATime(now, IncludeMs(options))

\* generateGPRMC was given a position timestamp in 2000 and
\* options.timestamp in 2025, and rendered the time and date of the latter
C8_Witness ==
    /\ op = "generateGPRMC"
    /\ pos.timestamp = Time_Y2K
    /\ options.timestamp = Time_Test
    /\ SubSeq(TimeField, 1, 6) = <<"1", "2", "3", "4", "5", "6">>
    /\ DateField = <<"0", "4", "0", "7", "2", "5">>

\* the number a string of decimal digits denotes, or -1 when a character is
\* no digit
RECURSIVE Decimal(_)
Decimal(s) ==
    IF s = <<>> THEN 0
    ELSE IF s[Len(s)] \notin {DecDigits[i] : i \in DOMAIN DecDigits} THEN -1
    ELSE IF Decimal(SubSeq(s, 1, Len(s) - 1)) < 0 THEN -1
    ELSE 10 * Decimal(SubSeq(s, 1, Len(s) - 1))
            + (CHOOSE i \in DOMAIN DecDigits : DecDigits[i] = s[Len(s)]) - 1

\* C9: in the frames of both encoders the time field is exactly the six
\* digits hhmmss of the UTC time of the resolved timestamp when includeMs is
\* false or omitted, and those six digits, `.` and the three digits of the
\* UTC milliseconds when includeMs is true.
C9_TimeField ==
    Encoded =>
        LET t  == resolveTime(pos, options, clock)
            f  == TimeField
            ms == options.present /\ options.includeMs = "true"
        IN  /\ Len(f) = (IF ms THEN 10 ELSE 6)
            /\ Decimal(SubSeq(f, 1, 2)) = t.ms \div 3600000
            /\ Decimal(SubSeq(f, 3, 4)) = (t.ms \div 60000) % 60
            /\ Decimal(SubSeq(f, 5, 6)) = (t.ms \div 1000) % 60
            /\ ms => /\ f[7] = "."
                     /\ Decimal(SubSeq(f, 8, 10)) = t.ms % 1000

\* generateGPGGA rendered 00:00:07.005 with milliseconds
C9_Witness ==
    /\ op = "generateGPGGA"
    /\ IncludeMs(options)
    /\ TimeField = <<"0", "0", "0", "0", "0", "7", ".", "0", "0", "5">>

\* whole degrees and the rest of a coordinate x, the rest in units of
\* 1 / (3 * 10^7) degree, when the denominator of x allows it
TenthsOfMicro == 3 * CoordUnit
WholeDegrees(x) == x.n \div x.d
RestOfDegree(x) == (x.n % x.d) * (TenthsOfMicro \div x.d)

\* x is within 10^-4 degree of y
WithinTolerance(x, y) ==
    /\ ~IsNaN(x) /\ ~IsNaN(y)
    /\ x.d > 0 /\ TenthsOfMicro % x.d = 0
    /\ y.d > 0 /\ TenthsOfMicro % y.d = 0
    /\ Abs(WholeDegrees(x) - WholeDegrees(y)) <= 1
    /\ Abs((WholeDegrees(x) - WholeDegrees(y)) * TenthsOfMicro
           + RestOfDegree(x) - RestOfDegree(y)) * 10000 <= TenthsOfMicro

\* x does not lie on the other side of zero from y
SameSide(x, y) == (y.n > 0 => x.n >= 0) /\ (y.n < 0 => x.n <= 0)

\* C10: a latitude in [-90, 90] rendered by formatLatitude and decoded by
\* parseLatitude, and a longitude in [-180, 180] rendered by formatLongitude
\* and decoded by parseLongitude, comes back within 10^-4 degree and on the
\* same side of zero, the bounds and zero included.
C10_CoordinateRoundTrip ==
    /\ op = "parseLatitude"
         => /\ WithinTolerance(packet.value, pos.latitude)
            /\ SameSide(packet.value, pos.latitude)
    /\ op = "parseLongitude"
         => /\ WithinTolerance(packet.value, pos.longitude)
            /\ SameSide(packet.value, pos.longitude)

\* latitude -90 went through formatLatitude and parseLatitude
C10_Witness ==
    /\ op = "parseLatitude"
    /\ pos.latitude = Degrees(-90, 0)
    /\ sentence = <<"9", "0", "0", "0", ".", "0", "0", "0", "0", ",", "S">>
    /\ packet.value.n < 0

\* |x - y| <= tolerance / scale, for fractions whose denominators divide scale
Near(x, y, scale, tolerance) ==
    /\ ~IsNaN(x) /\ ~IsNaN(y)
    /\ x.d > 0 /\ scale % x.d = 0
    /\ y.d > 0 /\ scale % y.d = 0
    /\ Abs((x.n \div x.d) - (y.n \div y.d)) <= 1
    /\ Abs(((x.n \div x.d) - (y.n \div y.d)) * scale
           + (x.n % x.d) * (scale \div x.d)
           - (y.n % y.d) * (scale \div y.d)) <= tolerance

Million == 1000 * 1000

\* C11: decoding an encoder frame gives back the altitude (GGA), the speed
\* times 1.94384 and the heading (RMC) of the position, each within 0.05,
\* the error of the one-decimal rendering.
C11_AltitudeSpeedHeading ==
    (Decoded /\ Intact /\ ~IsError(packet)) =>
        /\ origin = "generateGPGGA"
             => Near(packet.altitudeMeters, pos.altitude, Million, 50000)
        /\ origin = "generateGPRMC"
             => /\ Near(packet.speedKnots,
                        Num(pos.speed.n * 194384, pos.speed.d * 100000),
                        Million, 50000)
                /\ Near(packet.trackTrue, pos.heading, Million, 50000)

\* the position of the spec's example (72 m/s, heading 90) went through
\* generateGPRMC and a decoder: 139.95648 knots came back as 140.0
C11_Witness ==
    /\ Decoded /\ Intact /\ origin = "generateGPRMC"
    /\ pos.speed = Num(72, 1)
    /\ ~IsError(packet)
    /\ packet.speedKnots = Num(1400, 10)
    /\ packet.trackTrue = Num(900, 10)

\* the comma-delimited fields of the data part of `sentence`, and field i
\* (0-based, as the decoders index them)
Fields == split(DataPart(sentence), ",")
Field(i) == At(Fields, i)
\* the identifier without its two talker characters
Identifier == SubSeq(Field(0), 3, Len(Field(0)))

\* `sentence` has every positional field of its type
HasAllFields ==
    \/ Identifier = Str_GGA /\ Len(Fields) >= 15
    \/ Identifier = Str_RMC /\ Len(Fields) >= 13

\* `sentence` with field i replaced by text
WithField(i, text) ==
    <<"$">> \o Join([Fields EXCEPT ![i + 1] = text])
            \o SubSeq(sentence, NextStar(sentence, 2), Len(sentence))

\* what the decoder of this state gives, without validation, on s
DecodeAgain(s, now) ==
    IF op = "parseNmeaSentence" THEN parseNmeaSentence(s, FALSE, now)
    ELSE parseNmeaSentenceDoc(s, FALSE, now)

\* C12: a GGA or RMC frame with all its positional fields, whichever of them
\* are empty, decodes without error: an empty latitude, longitude or numeric
\* field gives NaN, an empty GGA time gives undefined, and the RMC status is
\* returned as given and has no effect on the other fields.
C12_EmptyFields ==
    (PassedChecks /\ HasAllFields) =>
        /\ ~IsError(packet)
        /\ Identifier = Str_GGA =>
             /\ Field(1) = <<>> => packet.time = UndefinedDate
             /\ Field(2) = <<>> => IsNaN(packet.latitude)
             /\ Field(4) = <<>> => IsNaN(packet.longitude)
             /\ Field(6) = <<>> => IsNaN(packet.fixType)
             /\ Field(7) = <<>> => IsNaN(packet.satellitesInView)
             /\ Field(8) = <<>> => IsNaN(packet.horizontalDilution)
             /\ Field(9) = <<>> => IsNaN(packet.altitudeMeters)
             /\ Field(11) = <<>> => IsNaN(packet.geoidalSeperation)
        /\ Identifier = Str_RMC =>
             /\ packet.status = Field(2)
             /\ Field(3) = <<>> => IsNaN(packet.latitude)
             /\ Field(5) = <<>> => IsNaN(packet.longitude)
             /\ Field(7) = <<>> => IsNaN(packet.speedKnots)
             /\ Field(8) = <<>> => IsNaN(packet.trackTrue)
             /\ Field(10) = <<>> => IsNaN(packet.variation)
             /\ ~enableChecksum =>
                  DecodeAgain(WithField(2, <<"A">>), clock)
                      = [packet EXCEPT !.status = <<"A">>]

\* the void RMC sentence of the decoder's tests was decoded: status V, and
\* NaN for the empty position, speed and track
C12_Witness ==
    /\ Decoded /\ sentence = Test_RMC_Void
    /\ ~IsError(packet)
    /\ packet.status = <<"V">>
    /\ IsNaN(packet.latitude) /\ IsNaN(packet.longitude)
    /\ IsNaN(packet.speedKnots) /\ IsNaN(packet.trackTrue)

\* C13: on a decoded GGA record differentialAge is present exactly when raw
\* field 13 is non-empty and differentialRefStn exactly when raw field 14 is
\* non-empty; for an empty or missing raw field the property is absent, not
\* NaN and not an empty string.
C13_DifferentialFields ==
    (Returned /\ Identifier = Str_GGA) =>
        /\ ("differentialAge" \in DOMAIN packet) <=> Truthy(Field(13))
        /\ ("differentialRefStn" \in DOMAIN packet) <=> Truthy(Field(14))

\* a GGA sentence with both differential fields filled was decoded, and both
\* properties are on the record
C13_Witness ==
    /\ Returned /\ DataPart(sentence) = Body_GGA_Full
    /\ packet.differentialAge = Num(32, 10)
    /\ packet.differentialRefStn = <<"0", "1", "2", "0">>

\* what the decoder of this state gives on `sentence` when the wall clock
\* reads `now`
DecodeAt(now) ==
    IF op = "parseNmeaSentence" THEN parseNmeaSentence(sentence, enableChecksum, now)
    ELSE parseNmeaSentenceDoc(sentence, enableChecksum, now)

\* C14: decoding the same sentence with the same validation flag at any two
\* wall-clock instants gives equal results.
C14_ClockIndependent ==
    Decoded => \A now \in OtherClocks : DecodeAt(now) = packet

\* C15: every generateGPGGA output starts with $GPGGA and its fields 6..14
\* are 1, 08, 0.9, the altitude to one decimal, M, 0.0, M, empty, empty;
\* every generateGPRMC output starts with $GPRMC, has status A, two empty
\* variation fields and a last mode field A; decoding them gives fixType 1,
\* satellitesInView 8, no differential fields, status A and faaMode A.
C15_HardcodedFields ==
    /\ (Intact /\ origin = "generateGPGGA") =>
         /\ SubSeq(sentence, 1, 7) = Str_GPGGA \o Comma
         /\ Len(Fields) = 15
         /\ SubSeq(Fields, 7, 15) =
               << <<"1">>, <<"0", "8">>, <<"0", ".", "9">>, toFixed(pos.altitude, 1),
                  <<"M">>, <<"0", ".", "0">>, <<"M">>, <<>>, <<>> >>
         /\ Decoded =>
              /\ ~IsError(packet)
              /\ packet.fixType = Num(1, 1)
              /\ packet.satellitesInView = Num(8, 1)
              /\ "differentialAge" \notin DOMAIN packet
              /\ "differentialRefStn" \notin DOMAIN packet
    /\ (Intact /\ origin = "generateGPRMC") =>
         /\ SubSeq(sentence, 1, 7) = Str_GPRMC \o Comma
         /\ Len(Fields) = 13
         /\ Field(2) = <<"A">>
         /\ Field(10) = <<>> /\ Field(11) = <<>>
         /\ Field(12) = <<"A">>
         /\ Decoded =>
              /\ ~IsError(packet)
              /\ packet.status = <<"A">>
              /\ packet.faaMode = <<"A">>
              /\ IsNaN(packet.variation) /\ packet.variationPole = <<>>

\* an RMC frame of the encoder for a position south and west was decoded
C15_Witness ==
    /\ Intact /\ origin = "generateGPRMC" /\ Returned
    /\ pos = Pos_SW
    /\ packet.status = <<"A">> /\ packet.faaMode = <<"A">>

\* 1-based index of the last `*` of s (s holds one)
LastStar(s) ==
    CHOOSE k \in DOMAIN s : s[k] = "*" /\ \A j \in (k + 1)..Len(s) : s[j] # "*"

\* the checks and the dispatch of the decoder of this state, applied to the
\* pieces before and after the last `*` of `sentence`
DecodeAtLastStar ==
    IF op = "parseNmeaSentence"
    THEN CheckAndDispatch(sentence,
                          SubSeq(sentence, 2, LastStar(sentence) - 1),
                          SubSeq(sentence, LastStar(sentence) + 1, Len(sentence)),
                          enableChecksum, clock)
    ELSE CheckAndDispatchDoc(SubSeq(sentence, 2, LastStar(sentence) - 1),
                             SubSeq(sentence, LastStar(sentence) + 1, Len(sentence)),
                             enableChecksum, clock)

\* C16: the decoders cut the frame at its last `*`: the checksum part is what
\* follows the last `*` and the data part is what lies between the leading
\* `$` and that `*`, also when the frame holds more than one `*`.
C16_SplitAtLastStar ==
    (Decoded /\ startsWith(sentence, "$") /\ HasStar(sentence)) =>
        packet = DecodeAtLastStar

\* C17: a frame that passes the frame check and has identifier GGA or RMC,
\* with any number of comma-delimited fields, decodes without validation to
\* a record (missing values NaN or undefined), and no error is raised.
\* (Stated for frames with a single `*`, on which the data part is the same
\* wherever the frame is cut.)
C17_MissingFieldsDecode ==
    (/\ PassedChecks /\ ~enableChecksum
     /\ NextStar(sentence, 2) = LastStar(sentence)
     /\ Identifier \in {Str_GGA, Str_RMC}) =>
        ~IsError(packet)

\* the raw coordinate fields and hemisphere letters of `sentence`
LatitudeRaw == IF Identifier = Str_GGA THEN Field(2) ELSE Field(3)
LatitudeLetter == IF Identifier = Str_GGA THEN Field(3) ELSE Field(4)
LongitudeRaw == IF Identifier = Str_GGA THEN Field(4) ELSE Field(5)
LongitudeLetter == IF Identifier = Str_GGA THEN Field(5) ELSE Field(6)

\* 1-based index of the first `.` of s, or one past the end
DotAt(s) ==
    CHOOSE k \in 1..(Len(s) + 1) :
        /\ k = Len(s) + 1 \/ s[k] = "."
        /\ \A j \in 1..(k - 1) : s[j] # "."
IntPart(s) == SubSeq(s, 1, DotAt(s) - 1)
FracPart(s) == SubSeq(s, DotAt(s) + 1, Len(s))

\* raw is `width` degree digits followed by minutes written as digits with an
\* optional fraction of at most seven digits
PlainCoordinate(raw, width) ==
    /\ Len(raw) > width
    /\ Decimal(SubSeq(raw, 1, width)) >= 0
    /\ IntPart(SubSeq(raw, width + 1, Len(raw))) # <<>>
    /\ Len(IntPart(SubSeq(raw, width + 1, Len(raw)))) <= 2
    /\ Decimal(IntPart(SubSeq(raw, width + 1, Len(raw)))) >= 0
    /\ Len(FracPart(SubSeq(raw, width + 1, Len(raw)))) <= 7
    /\ Decimal(FracPart(SubSeq(raw, width + 1, Len(raw)))) >= 0

\* degrees + minutes / 60 of the digits `degrees` and the minutes `minutes`,
\* computed on the digits
DegreesAndMinutes(degrees, minutes) ==
    Num(Decimal(degrees) * 60 * Pow10(Len(FracPart(minutes)))
            + Decimal(IntPart(minutes) \o FracPart(minutes)),
        60 * Pow10(Len(FracPart(minutes))))

SixtyTenMillions == 60 * CoordUnit

\* value is what the claim gives for the raw string and the hemisphere letter
CoordinateOf(value, raw, letter, width, negative) ==
    /\ ~Truthy(raw) => IsNaN(value)
    /\ (Truthy(raw) /\ PlainCoordinate(raw, width)) =>
          Near(value,
               IF letter = negative
               THEN Neg(DegreesAndMinutes(SubSeq(raw, 1, width),
                                          SubSeq(raw, width + 1, Len(raw))))
               ELSE DegreesAndMinutes(SubSeq(raw, 1, width),
                                      SubSeq(raw, width + 1, Len(raw))),
               SixtyTenMillions, 0)

\* C18: a non-empty raw latitude decodes to its first 2 characters as an
\* integer plus the rest as minutes / 60, a raw longitude to its first 3
\* characters plus the rest / 60; the value is negated for the letter S
\* (latitude) or W (longitude) and positive for every other letter; an empty
\* raw string decodes to NaN whatever the letter.
C18_CoordinateDecoding ==
    (Returned /\ Identifier \in {Str_GGA, Str_RMC}) =>
        /\ CoordinateOf(packet.latitude, LatitudeRaw, LatitudeLetter, 2, <<"S">>)
        /\ CoordinateOf(packet.longitude, LongitudeRaw, LongitudeLetter, 3, <<"W">>)

\* a frame whose longitude letter W was replaced by another letter was
\* decoded: the longitude is positive
C18_Witness ==
    /\ Returned /\ Identifier = Str_RMC
    /\ LongitudeLetter = <<"A">>
    /\ PlainCoordinate(LongitudeRaw, 3)
    /\ DegreesAndMinutes(SubSeq(LongitudeRaw, 1, 3),
                         SubSeq(LongitudeRaw, 4, Len(LongitudeRaw))).n > 0
    /\ packet.longitude.n > 0
    /\ FromEncoder /\ pos.longitude.n < 0

\* the day number (days since 1970-01-01) of 2000-01-01: thirty years, seven
\* of them leap years
Epoch2000 == 30 * 365 + 7
\* days of a year before the first of each month, in a common year
DaysBeforeMonth == <<0, 31, 59, 90, 120, 151, 181, 212, 243, 273, 304, 334>>
\* between 2000 and 2099 every fourth year is a leap year
IsLeap(yy) == yy % 4 = 0
DaysInMonth(yy, mo) ==
    IF mo = 2 THEN (IF IsLeap(yy) THEN 29 ELSE 28)
    ELSE IF mo \in {4, 6, 9, 11} THEN 30 ELSE 31
\* the day number of day dd of month mo (1-based) of the year 2000 + yy
DayOf(yy, mo, dd) ==
    Epoch2000 + 365 * yy + (yy + 3) \div 4
        + DaysBeforeMonth[mo] + (IF IsLeap(yy) /\ mo > 2 THEN 1 ELSE 0)
        + dd - 1

\* the pieces of the RMC date and time fields, as numbers (-1: not digits)
DateDay == Decimal(SubSeq(Field(9), 1, 2))
DateMonth == Decimal(SubSeq(Field(9), 3, 4))
DateYear == Decimal(SubSeq(Field(9), 5, 6))
TimeHours == Decimal(SubSeq(Field(1), 1, 2))
TimeMinutes == Decimal(SubSeq(Field(1), 3, 4))
TimeSeconds == Decimal(SubSeq(Field(1), 5, 6))

\* the RMC date field is a date ddmmyy and the time field a time hhmmss
HasDateAndTime ==
    /\ Len(Fields) >= 10
    /\ Len(Field(9)) = 6 /\ Len(Field(1)) = 6
    /\ DateYear >= 0
    /\ DateMonth \in 1..12
    /\ DateDay \in 1..DaysInMonth(DateYear, DateMonth)
    /\ TimeHours \in 0..23 /\ TimeMinutes \in 0..59 /\ TimeSeconds \in 0..59

\* C19: for a six-digit date ddmmyy and a time hhmmss the RMC datetime is
\* the UTC instant with day dd, month mm, year 2000 + yy, hour hh, minute mm
\* and second ss: every two-digit year lies in 2000..2099, with no pivot.
C19_DateTimeDecoding ==
    (Returned /\ Identifier = Str_RMC /\ HasDateAndTime) =>
        packet.datetime =
            Date(DayOf(DateYear, DateMonth, DateDay),
                 ((TimeHours * 60 + TimeMinutes) * 60 + TimeSeconds) * 1000)

\* the RMC sentence of the decoder's tests, dated 230394, was decoded: the
\* datetime is 2094-03-23 12:35:19
C19_Witness ==
    /\ Returned /\ sentence = Test_RMC_North
    /\ DateYear = 94
    /\ packet.datetime = Date(DayOf(94, 3, 23), ((12 * 60 + 35) * 60 + 19) * 1000)

\* `sentence` has the leading `$` and a `*`
Framed == startsWith(sentence, "$") /\ HasStar(sentence)
\* the transmitted checksum, read as hexadecimal, is not the XOR of the data
\* part
WrongChecksum ==
    Num(XorOfCodes(DataPart(sentence)), 1) # parseInt(Transmitted(sentence), 16)

\* C20: the decoders check the frame first, then (when validation is
\* requested) the checksum, then dispatch on the sentence type, and the first
\* failing check decides the error: a frame with a wrong checksum raises the
\* checksum mismatch under validation whatever its identifier, an input
\* without `$` raises the frame error whatever its checksum or identifier,
\* and a dispatch error or a record comes only after both checks passed.
C20_CheckOrder ==
    Decoded =>
        /\ ~Framed => Raised("Invalid NMEA sentence")
        /\ (Framed /\ enableChecksum /\ WrongChecksum) => IsChecksumMismatch(packet)
        /\ PassedChecks => (Framed /\ (enableChecksum => ~WrongChecksum))

\* a VTG frame with a wrong checksum was decoded with validation: the error
\* is the checksum mismatch, not the unsupported type
C20_Witness ==
    /\ Decoded /\ enableChecksum /\ Framed
    /\ DataPart(sentence) = Body_VTG
    /\ Transmitted(sentence) # <<>> /\ WrongChecksum
    /\ IsChecksumMismatch(packet)

\* the rendered coordinate of this state, without its hemisphere letter, and
\* the number of its degree digits
Rendered == At(split(sentence, ","), 0)
DegreeDigits == IF origin = "formatLatitude" THEN 2 ELSE 3

\* C21: for a latitude in [-90, 90] and a longitude in [-180, 180] the
\* encoder's coordinate is exactly 2 (latitude) or 3 (longitude) degree
\* digits followed by minutes of the form mm.mmmm with a value in [0, 60):
\* the rounding to four decimals never gives 60.0000.
C21_MinutesBelowSixty ==
    origin \in {"formatLatitude", "formatLongitude"} =>
        /\ Len(Rendered) = DegreeDigits + 7
        /\ Decimal(SubSeq(Rendered, 1, DegreeDigits)) >= 0
        /\ Rendered[DegreeDigits + 3] = "."
        /\ Decimal(SubSeq(Rendered, DegreeDigits + 4, DegreeDigits + 7)) >= 0
        /\ Decimal(SubSeq(Rendered, DegreeDigits + 1, DegreeDigits + 2)) \in 0..59

\* t lies in the years 2000..2099
InCentury(t) == t.day \in Epoch2000..DayOf(99, 12, 31)

\* C22: decoding the frame generateGPRMC gives for options.timestamp = t
\* returns, for a t in the years 2000..2099, the datetime t cut to whole
\* seconds, with includeMs false and true alike; for a t outside those years
\* the decoded year differs from the year of t by a multiple of 100.
C22_DateTimeRoundTrip ==
    (Decoded /\ Intact /\ origin = "generateGPRMC" /\ OptionsTimestampDefined) =>
        /\ ~IsError(packet)
        /\ InCentury(options.timestamp) =>
              packet.datetime =
                  Date(options.timestamp.day, (options.timestamp.ms \div 1000) * 1000)
        /\ ~InCentury(options.timestamp) =>
              /\ IsValidDate(packet.datetime)
              /\ (getUTCFullYear(packet.datetime)
                    - getUTCFullYear(options.timestamp)) % 100 = 0

\* the last millisecond of 2099, rendered with milliseconds, was decoded to
\* 2099-12-31 23:59:59
C22_Witness ==
    /\ Returned /\ Intact /\ origin = "generateGPRMC"
    /\ IncludeMs(options)
    /\ options.timestamp = Date(DayOf(99, 12, 31), 86399999)
    /\ TimeField = <<"2", "3", "5", "9", "5", "9", ".", "9", "9", "9">>
    /\ packet.datetime = Date(DayOf(99, 12, 31), 86399000)

====
